---- MODULE Spec2Model ----
(***************************************************************************)
(* A model of the Mostro client (src/src/client/mostro.ts) and of the      *)
(* relay gateway Nostr (src/unnamed/part_000, lines 89-456).               *)
(*                                                                         *)
(* The program runs on a single-threaded event loop: every action below is *)
(* one run-to-completion step (a public call up to its first suspension,   *)
(* the continuation of an await, a timer callback, an inbound event).      *)
(* Time is counted in milliseconds and advances in steps of Quantum.       *)
(***************************************************************************)
EXTENDS Integers, Sequences, FiniteSets, TLC

\* ------------------------------------------------------------------ bounds

\* Trade-action calls made on one instance.
MaxCalls == 2
\* User calls of Mostro.connect() (the constructor's own call comes first).
MaxConnects == 2
\* Replies to one request that are told apart (more count as this many).
MaxReplies == 2
\* NDK subscription objects created on one instance.
MaxSubs == 2
\* searchOrders calls made on one instance.
MaxSearches == 2
\* Orders one search collects.
MaxOrders == 2
\* waitForAction calls made on one instance.
MaxWaiters == 2

\* Ratings added to one Rating object.
MaxReviews == 3

\* --------------------------------------------------------- program constants

\* mostro.ts:9
REQUEST_TIMEOUT == 10000
\* mostro.ts:298, the search window of searchOrders
SEARCH_WINDOW == 5000
\* The clock advances in steps of the shortest timer of the program.
Quantum == SEARCH_WINDOW
\* The kind of the order events (part_000:115).
NOSTR_REPLACEABLE_EVENT_KIND == 38383

\* ------------------------------------------------------------------- values

NoValue == "none"
\* An absent number (request_id undefined; no request id taken).
NoId == -1

\* Private-key strings handed to updatePrivKey: their shape is what the code
\* tests (part_000:399-413), their secret is what decoding yields.
KeyStrings ==
    { [form |-> "empty",  wellFormed |-> FALSE, secret |-> NoValue],
      [form |-> "hex64",  wellFormed |-> TRUE,  secret |-> "kA"],
      [form |-> "nsec",   wellFormed |-> TRUE,  secret |-> "kB"],
      [form |-> "nsec",   wellFormed |-> FALSE, secret |-> NoValue],
      [form |-> "other",  wellFormed |-> FALSE, secret |-> NoValue] }

EmptyKeyString == [form |-> "empty", wellFormed |-> FALSE, secret |-> NoValue]

\* One key string that decodes and one that does not.
SomeKeyStrings ==
    { [form |-> "hex64", wellFormed |-> TRUE,  secret |-> "kA"],
      [form |-> "other", wellFormed |-> FALSE, secret |-> NoValue] }

\* nostr-tools getPublicKey: an injective map from secrets to public keys.
getPublicKey(secret) == IF secret = "kA" THEN "pubA" ELSE "pubB"

\* options.mostroPubKey: absent ('' in test-list-orders.ts:33) or a Mostro's key.
MostroPubKeys == {"", "mostroPub"}

VARIABLES
    inst,          \* "none" | "alive" | "threw": the outcome of new Mostro(options)
    options,       \* Mostro.options
    keyManager,    \* Mostro.keyManager is set
    mostroPubKey,  \* Mostro.mostroPubKey
    connects,      \* the promises of the Mostro.connect() calls, in call order
    initialized,   \* Nostr.initialized
    privateKey,    \* Nostr.privateKey
    poolListener,  \* the pool's 'connect' listener of Nostr's constructor is on
    ndkSubs,       \* the NDK subscription objects ever created, in order
    subscriptions, \* Nostr.subscriptions: subscription id -> index in ndkSubs
    reqs,          \* the trade-action calls, in call order
    pendingRequests, \* Mostro.pendingRequests: request id -> index in reqs
    nextRequestId, \* Mostro.nextRequestId
    waiters,       \* the waitForAction calls, in call order
    searches,      \* the searchOrders calls, in call order
    customOrderSubscriptions, \* Mostro's map: search id -> index in ndkSubs
    stamp,         \* the millisecond Date.now() returned last (they are numbered)
    delivered,     \* the relay events delivered in the last step
    published,     \* the events handed to ndkEvent.publish() by the last step
    emitted,       \* the events Mostro emitted in the last step, in order
    thrown,        \* the error the last step's handler threw, if any
    logged,        \* the error the last step caught and wrote to console.error
    rating,        \* the Rating object the caller of RatingUtils holds
    call           \* the last direct call of isOrderEvent: arguments and result

instVars  == <<inst, options, keyManager, mostroPubKey>>
connVars  == <<connects>>
gwVars    == <<initialized, privateKey, poolListener>>
subVars   == <<ndkSubs, subscriptions>>
reqVars   == <<reqs, pendingRequests, nextRequestId, waiters>>
searchVars == <<searches, customOrderSubscriptions, stamp>>
outVars   == <<delivered, published, emitted, thrown, logged>>
pureVars  == <<rating, call>>

vars == <<instVars, connVars, gwVars, subVars, reqVars, searchVars, outVars,
          pureVars>>

\* A step that takes no relay event, publishes nothing, emits nothing and
\* throws nothing.
Quiet ==
    /\ logged' = NoValue
    /\ delivered' = {}
    /\ published' = {}
    /\ emitted' = <<>>
    /\ thrown' = NoValue

\* --------------------------------------------------------------- the gateway

\* Nostr.updatePrivKey (part_000:398-423): the value privateKey has afterwards.
\* Every decoding failure is caught and leaves the key unset.
DecodePrivKey(privKey) ==
    IF privKey.form = "empty" THEN NoValue
    ELSE IF privKey.form = "nsec"
         THEN (IF privKey.wellFormed THEN privKey.secret ELSE NoValue)
         ELSE IF privKey.form = "hex64" THEN privKey.secret
              ELSE NoValue

\* A string is truthy in JavaScript iff it is not empty.
Truthy(s) == s # ""
KeyGiven(privKey) == privKey.form # "empty"

\* Map.set(subId, subscription): an entry of the same id is replaced.
MapSet(map, key, val) ==
    [k \in (DOMAIN map) \cup {key} |-> IF k = key THEN val ELSE map[k]]

EmptyMap == [k \in {} |-> NoValue]

\* ndk.subscribe: a new live subscription object.
NewSub(kind, filters) == [kind |-> kind, filters |-> filters, stopped |-> FALSE]

\* unsubscribeAll (part_000:442-448): stop every subscription the map holds.
StopMapped(subs, map) ==
    [i \in DOMAIN subs |->
        IF \E k \in DOMAIN map : map[k] = i
        THEN [subs[i] EXCEPT !.stopped = TRUE]
        ELSE subs[i]]

\* ------------------------------------------------------- the connect promises

\* A promise of Mostro.connect(): "awaitNdk" while nostr.connect() awaits
\* ndk.connect(), "following" once it has returned readyPromise and that one is
\* still pending, then "fulfilled" or "rejected".  readyPromise is connects[1],
\* the promise of the constructor's call (mostro.ts:80).
ReadyPromise == 1

\* `return this.readyPromise` in the call whose promise is connects[i]
\* (mostro.ts:107): an async function resolves its promise with the returned
\* value; a promise resolved with itself is rejected (TypeError: chaining
\* cycle), and one resolved with another promise takes that promise's outcome.
ReturnReadyPromise(cs, i) ==
    IF i = ReadyPromise
    THEN [j \in DOMAIN cs |->
            IF j = i \/ cs[j] = "following" THEN "rejected" ELSE cs[j]]
    ELSE [cs EXCEPT ![i] =
            IF cs[ReadyPromise] \in {"fulfilled", "rejected"}
            THEN cs[ReadyPromise]
            ELSE "following"]

\* new Mostro(options) (mostro.ts:65-81).  With a private key in the options
\* setupEventHandlers calls nostr.subscribeDirectMessages() (mostro.ts:88-90)
\* before any connect: the gateway is not initialized and the call throws
\* (part_000:286-288), so the constructor throws.  Otherwise the constructor
\* ends with this.readyPromise = this.connect(): nostr.connect() calls
\* ndk.connect() and suspends.
Construct ==
    /\ inst = "none"
    /\ IF KeyGiven(options.privateKey)
       THEN /\ inst' = "threw"
            /\ thrown' = "Nostr not initialized"
            /\ UNCHANGED <<keyManager, mostroPubKey, connects, gwVars>>
       ELSE /\ inst' = "alive"
            /\ thrown' = NoValue
            /\ keyManager' = FALSE
            /\ mostroPubKey' = options.mostroPubKey
            /\ privateKey' = NoValue
            /\ poolListener' = TRUE
            /\ initialized' = FALSE
            /\ connects' = <<"awaitNdk">>
    /\ delivered' = {}
    /\ logged' = NoValue
    /\ published' = {}
    /\ emitted' = <<>>
    /\ UNCHANGED <<pureVars, searchVars, options, subVars, reqVars>>

\* A later mostro.connect() by the user (mostro.ts:105-108), up to its first
\* suspension.  Nostr.connect (part_000:163-168) calls ndk.connect() whenever
\* initialized is still false; otherwise it returns at once and the caller
\* goes on to `return this.readyPromise`.
Connect ==
    /\ inst = "alive"
    /\ Len(connects) < 1 + MaxConnects
    /\ IF initialized
       THEN connects' = ReturnReadyPromise(Append(connects, "awaitNdk"),
                                           Len(connects) + 1)
       ELSE connects' = Append(connects, "awaitNdk")
    /\ Quiet
    /\ UNCHANGED <<pureVars, searchVars, instVars, gwVars, subVars, reqVars>>

\* ndk.connect() of the i-th call resolves: Nostr.connect sets initialized
\* (part_000:166) and Mostro.connect returns readyPromise (mostro.ts:107).
NdkConnected(i) ==
    /\ inst = "alive"
    /\ i \in DOMAIN connects
    /\ connects[i] = "awaitNdk"
    /\ initialized' = TRUE
    /\ connects' = ReturnReadyPromise(connects, i)
    /\ Quiet
    /\ UNCHANGED <<pureVars, searchVars, instVars, privateKey, poolListener, subVars, reqVars>>

\* Nostr.subscribeOrders (part_000:170-190) once past its guard.
SubscribeOrders(pk) ==
    /\ ndkSubs' = Append(ndkSubs, NewSub("orders", pk))
    /\ subscriptions' = MapSet(subscriptions, <<"orders", pk>>, Len(ndkSubs) + 1)

\* The pool signals 'connect' (it does so whenever all its relays are
\* connected, from the first ndk.connect() on): Nostr emits 'ready'
\* (part_000:160) and Mostro's onNostrReady runs (mostro.ts:93-103).
PoolConnect ==
    /\ inst = "alive"
    /\ poolListener
    /\ delivered' = {}
    /\ logged' = NoValue
    /\ published' = {}
    /\ IF Truthy(mostroPubKey)
       THEN IF initialized
            THEN /\ Len(ndkSubs) < MaxSubs
                 /\ SubscribeOrders(mostroPubKey)
                 /\ emitted' = <<>>
                 /\ thrown' = NoValue
            ELSE /\ thrown' = "Nostr not initialized"
                 /\ emitted' = <<>>
                 /\ UNCHANGED subVars
       ELSE /\ emitted' = << <<"ready">> >>
            /\ thrown' = NoValue
            /\ UNCHANGED subVars
    /\ UNCHANGED <<pureVars, searchVars, instVars, connVars, gwVars, reqVars>>

\* What Nostr.updatePrivKey writes to console.error (part_000:416-419): the
\* error of nip19.decode or of the format check, caught in the method.
DecodeError(privKey) ==
    IF KeyGiven(privKey) /\ DecodePrivKey(privKey) = NoValue
    THEN "Error decoding private key"
    ELSE NoValue

\* Mostro.updatePrivKey (mostro.ts:447-450): nothing is thrown, whatever the
\* string.
UpdatePrivKey(privKey) ==
    /\ inst = "alive"
    /\ privateKey' = DecodePrivKey(privKey)
    /\ keyManager' = TRUE
    /\ logged' = DecodeError(privKey)
    /\ delivered' = {}
    /\ published' = {}
    /\ emitted' = <<>>
    /\ thrown' = NoValue
    /\ UNCHANGED <<pureVars, searchVars, inst, options, mostroPubKey, connVars, initialized,
                   poolListener, subVars, reqVars>>

\* mostro.getNostr().subscribeDirectMessages() (mostro.ts:452-454,
\* part_000:285-318): the only call of it that can succeed, since the call in
\* the constructor comes before the gateway is initialized.
SubscribeDirectMessages ==
    /\ inst = "alive"
    /\ initialized
    /\ privateKey # NoValue
    /\ Len(ndkSubs) < MaxSubs
    /\ ndkSubs' = Append(ndkSubs, NewSub("dms", getPublicKey(privateKey)))
    /\ subscriptions' = MapSet(subscriptions,
                               <<"dms", getPublicKey(privateKey)>>,
                               Len(ndkSubs) + 1)
    /\ Quiet
    /\ UNCHANGED <<pureVars, searchVars, instVars, connVars, gwVars, reqVars>>

\* Mostro.disconnect (mostro.ts:456-458) and Nostr.disconnect
\* (part_000:442-455).  The pending requests are not touched.
Disconnect ==
    /\ inst = "alive"
    /\ ndkSubs' = StopMapped(ndkSubs, subscriptions)
    /\ subscriptions' = EmptyMap
    /\ poolListener' = FALSE
    /\ initialized' = FALSE
    /\ Quiet
    /\ UNCHANGED <<pureVars, searchVars, instVars, connVars, privateKey, reqVars>>

\* ----------------------------------------------------------- trade actions

TradeActions ==
    {"new-order", "take-sell", "take-buy", "add-invoice", "release", "fiat-sent"}

NoTimer == -1

\* A timer armed again after its callback has run (setInterval in place of
\* setTimeout).
TimerRearmed == REQUEST_TIMEOUT

\* setTimeout runs its callback once: afterwards the timer is gone
\* (mostro.ts:402-405).
TimerAfterFiring == NoTimer

\* createPendingRequest (mostro.ts:393): const requestId = this.nextRequestId++.
AllocatedId == nextRequestId

\* The counter left as it was (the increment forgotten).
IdNotAdvanced == nextRequestId

IdAfterAllocation == nextRequestId + 1

\* The record of a call that went through createPendingRequest
\* (mostro.ts:392-414): its promise ("completion") is pending, its timer is
\* set to REQUEST_TIMEOUT.  `fired` counts the calls of its resolve and
\* reject functions, `replies` the inbound messages that carried its id while
\* pendingRequests held it; `caller` is the promise the trade action returned.
NewRequest(id) ==
    [ id |-> id,
      timer |-> REQUEST_TIMEOUT,
      completion |-> "pending",
      value |-> NoValue,
      fired |-> 0,
      caller |-> "running",
      callerError |-> NoValue,
      replies |-> 0 ]

\* A call that threw before createPendingRequest (submitOrder, mostro.ts:156).
FailedCall(error) ==
    [ id |-> NoId,
      timer |-> NoTimer,
      completion |-> "pending",
      value |-> NoValue,
      fired |-> 0,
      caller |-> "failed",
      callerError |-> error,
      replies |-> 0 ]

\* getMostroPublicKey(PublicKeyType.HEX) (mostro.ts:443-445) returns
\* this.nostr.getMyPubKey(type) (part_000:425-431): the public key of the
\* user's own private key.  Only called with a private key set.
getMostroPublicKey == getPublicKey(privateKey)

\* TWO_DAYS of randomTimestamp (part_000:347), in seconds.
TWO_DAYS == 2 * 24 * 60 * 60

\* A timestamp rounded up to the next second (Math.ceil for Math.floor).
CeilTimestamp(nowMs, drawMs) == 0 - ((drawMs - nowMs) \div 1000)

\* randomTimestamp (part_000:346-349):
\* Math.floor(Date.now() / 1000 - Math.random() * TWO_DAYS), for the reading
\* nowMs of Date.now() and the product Math.random() * TWO_DAYS, a real in
\* [0, TWO_DAYS), given in milliseconds as drawMs.
randomTimestamp(nowMs, drawMs) == (nowMs - drawMs) \div 1000

\* JSON values: null, undefined, numbers and strings.
Null == [json |-> "null"]
JsonUndefined == [json |-> "undefined"]
JsonNumber(n) == [json |-> "number", value |-> n]
JsonString(str) == [json |-> "string", value |-> str]

\* An optional number argument, given as the set of its values: what the
\* parameter holds.
Argument(amount) ==
    IF amount = {} THEN JsonUndefined
    ELSE JsonNumber(CHOOSE n \in amount : TRUE)

\* JavaScript truthiness of an optional number argument: undefined and 0 are
\* falsy.
TruthyNumber(amount) == amount # {} /\ amount # {0}

\* What prepareNewOrder returns (../core/order, not among the sources): the
\* order as it is sent, of which nothing is looked at.
PreparedOrder == [json |-> "order"]

\* The content of the payload of a trade action: submitOrder (mostro.ts:168),
\* takeSell and takeBuy (mostro.ts:186, 203), addInvoice (mostro.ts:222-224),
\* release and fiatSent (mostro.ts:242, 259).
Content(action, args) ==
    CASE action = "new-order" -> [order |-> PreparedOrder]
      [] action \in {"take-sell", "take-buy"} ->
            IF TruthyNumber(args.amount)
            THEN [amount |-> CHOOSE n \in args.amount : TRUE]
            ELSE Null
      [] action = "add-invoice" ->
            [payment_request |->
                <<Null, JsonString(args.invoice), Argument(args.amount)>>]
      [] OTHER -> Null

\* The payload of a trade action (mostro.ts:163-170, 180-188, ...): submitOrder
\* sends no id.
Payload(action, requestId, args) ==
    IF action = "new-order"
    THEN [version |-> 1, request_id |-> requestId, action |-> action,
          content |-> Content(action, args)]
    ELSE [version |-> 1, request_id |-> requestId, action |-> action,
          id |-> args.order, content |-> Content(action, args)]

\* JSON.stringify of an array: an element that is undefined is written as
\* null.
StringifyArray(array) ==
    [i \in DOMAIN array |->
        IF array[i].json = "undefined" THEN Null ELSE array[i]]

\* JSON.stringify(payload) (part_000:370), given as the value the text parses
\* back to.  Only the array of addInvoice can hold undefined.
Stringify(payload) ==
    IF payload.action = "add-invoice"
    THEN [payload EXCEPT !.content.payment_request = StringifyArray(@)]
    ELSE payload

\* The rumor of createAndPublishMostroEvent (part_000:364-371): kind 1, a
\* random past timestamp, the payload as JSON text.  drawnAt is the reading of
\* Date.now() the timestamp was computed from.
Rumor(payload, nowMs, drawMs) ==
    [kind |-> 1, created_at |-> randomTimestamp(nowMs, drawMs),
     drawnAt |-> nowMs, payload |-> Stringify(payload)]

\* createGiftWrapEvent (part_000:320-331): kind 1059, tagged with the
\* recipient, a random past timestamp of its own, the rumor as content.
GiftWrap(content, recipientPublicKey, nowMs, drawMs) ==
    [kind |-> 1059, p |-> recipientPublicKey,
     created_at |-> randomTimestamp(nowMs, drawMs), drawnAt |-> nowMs,
     rumor |-> content]

\* The arguments of a trade action and what its step reads from the
\* environment: Date.now() when the rumor's timestamp is drawn and wrapDelay
\* milliseconds later when the wrap's is, and the two draws of
\* Math.random() * TWO_DAYS in milliseconds.
PlainArgs ==
    [order |-> "o1", invoice |-> "lnbc1", amount |-> {},
     nowMs |-> 1999, wrapDelay |-> 0, rumorDraw |-> 0, wrapDraw |-> 0]

Draws == {0, 1500, TWO_DAYS * 1000 - 1}

TradeArgs ==
    [order : {"o1"}, invoice : {"lnbc1"}, amount : {{}, {0}, {50000}},
     nowMs : {1999, 3000}, wrapDelay : {0, 1}, rumorDraw : Draws,
     wrapDraw : Draws]

\* A key check that never finds the key missing.
KeyCheckSkipped == FALSE

\* getMyPubKey's guard (part_000:426-428): if (!this.privateKey) throw.
PrivateKeyNotSet == privateKey = NoValue

\* A trade action up to its first suspension: submitOrder, takeSell, takeBuy,
\* addInvoice, release, fiatSent (mostro.ts:155-267).  After
\* createPendingRequest the arguments of createAndPublishMostroEvent are
\* evaluated (getMostroPublicKey throws without a private key,
\* part_000:426-428), then publish throws when the gateway is not initialized
\* (part_000:352-354) or hands the event to the relays and suspends.
TradeCall(action, args) ==
    /\ inst = "alive"
    /\ Len(reqs) < MaxCalls
    /\ IF action = "new-order" /\ ~keyManager
       THEN /\ reqs' = Append(reqs, FailedCall("Key manager not initialized"))
            /\ published' = {}
            /\ UNCHANGED <<pendingRequests, nextRequestId>>
       ELSE /\ nextRequestId' = IdAfterAllocation
            /\ pendingRequests' =
                 MapSet(pendingRequests, AllocatedId, Len(reqs) + 1)
            /\ IF PrivateKeyNotSet
               THEN /\ reqs' = Append(reqs,
                        [NewRequest(AllocatedId) EXCEPT
                            !.caller = "failed",
                            !.callerError = "Private key not set"])
                    /\ published' = {}
               ELSE IF ~initialized
               THEN /\ reqs' = Append(reqs,
                        [NewRequest(AllocatedId) EXCEPT
                            !.caller = "failed",
                            !.callerError = "Nostr not initialized"])
                    /\ published' = {}
               ELSE /\ reqs' = Append(reqs, NewRequest(AllocatedId))
                    /\ published' =
                         {GiftWrap(Rumor(Payload(action, AllocatedId, args),
                                         args.nowMs, args.rumorDraw),
                                   getMostroPublicKey,
                                   args.nowMs + args.wrapDelay,
                                   args.wrapDraw)}
    /\ delivered' = {}
    /\ logged' = NoValue
    /\ emitted' = <<>>
    /\ thrown' = NoValue
    /\ UNCHANGED <<pureVars, searchVars, instVars, connVars, gwVars, subVars, waiters>>

\* ndkEvent.publish() of the i-th call settles (part_000:356): on success the
\* trade action returns the promise of createPendingRequest, so the caller's
\* promise takes that promise's outcome; on failure the caller's promise is
\* rejected with the publish error.
PublishDone(i, ok) ==
    /\ i \in DOMAIN reqs
    /\ reqs[i].caller = "running"
    /\ reqs' = [reqs EXCEPT ![i] =
                 IF ok THEN [@ EXCEPT !.caller = "returned"]
                 ELSE [@ EXCEPT !.caller = "failed",
                                !.callerError = "publish failed"]]
    /\ Quiet
    /\ UNCHANGED <<pureVars, searchVars, instVars, connVars, gwVars, subVars, pendingRequests,
                   nextRequestId, waiters>>

\* A delete that removes nothing.
MapKeep(map, key) == map

\* Map.delete(key).
MapDelete(map, key) == [k \in (DOMAIN map) \ {key} |-> map[k]]

\* rejecter(error) / resolver(value) called on the promise of record r: a
\* promise takes the first outcome it is given and keeps it.
Settle(r, outcome, value) ==
    [r EXCEPT !.fired = @ + 1,
              !.completion = IF r.completion = "pending" THEN outcome ELSE @,
              !.value = IF r.completion = "pending" THEN value ELSE @]

\* The timer callback of createPendingRequest (mostro.ts:402-405).
Timeout(i) ==
    /\ i \in DOMAIN reqs
    /\ reqs[i].timer = 0
    /\ pendingRequests' = MapDelete(pendingRequests, reqs[i].id)
    /\ reqs' = [reqs EXCEPT ![i] =
                 [Settle(@, "rejected", "Request timed out") EXCEPT
                    !.timer = TimerAfterFiring]]
    /\ Quiet
    /\ UNCHANGED <<pureVars, searchVars, instVars, connVars, gwVars, subVars, nextRequestId,
                   waiters>>

\* The timers of a sequence of records after Quantum milliseconds.
Elapse(records) ==
    [i \in DOMAIN records |->
        IF records[i].timer > 0
        THEN [records[i] EXCEPT !.timer = @ - Quantum]
        ELSE records[i]]

\* Quantum milliseconds pass: some timer is running and none is overdue (a
\* due callback runs before the clock goes on).  Date.now() moves on.
Tick ==
    /\ \/ \E i \in DOMAIN reqs : reqs[i].timer > 0
       \/ \E j \in DOMAIN searches : searches[j].timer > 0
       \/ \E k \in DOMAIN waiters : waiters[k].timer > 0
    /\ \A i \in DOMAIN reqs : reqs[i].timer # 0
    /\ \A i \in DOMAIN searches : searches[i].timer # 0
    /\ \A i \in DOMAIN waiters : waiters[i].timer # 0
    /\ reqs' = Elapse(reqs)
    /\ searches' = Elapse(searches)
    /\ waiters' = Elapse(waiters)
    /\ stamp' = IF searches = <<>> THEN stamp ELSE stamp + 1
    /\ Quiet
    /\ UNCHANGED <<pureVars, customOrderSubscriptions, instVars, connVars, gwVars,
                   subVars, pendingRequests, nextRequestId>>

\* ------------------------------------------------------ inbound direct messages

RequestIds == 0 .. (MaxCalls - 1)

\* The decrypted content of an inbound kind-4 event: a MostroMessage of the
\* order variant or of the cant-do variant (message.ts:16-36), or text that is
\* no JSON ("garbage", whose other fields mean nothing).
Bodies ==
    [variant : {"order", "cant-do", "garbage"},
     request_id : RequestIds \cup {NoId},
     action : {"new-order"},
     id : {"o1"}]

\* The inbound kind-4 events the relay delivers: from Mostro or, as an echo,
\* from the user's own key; with a content that decrypts to a body or does
\* not decrypt.  A body that is no JSON carries no request id.
InboundEvents ==
    { [pubkey |-> "mostroPub", decrypts |-> TRUE, body |-> b] :
        b \in { x \in Bodies : x.variant = "garbage" => x.request_id = NoId } }
    \cup { [pubkey |-> "mostroPub", decrypts |-> FALSE,
            body |-> [variant |-> "garbage", request_id |-> NoId,
                      action |-> "new-order", id |-> "o1"]],
           [pubkey |-> "pubA", decrypts |-> TRUE,
            body |-> [variant |-> "order", request_id |-> 0,
                      action |-> "new-order", id |-> "o1"]] }

\* A JSON.parse that takes any text.
AlwaysParses(body) == TRUE

\* JSON.parse (mostro.ts:135) succeeds.
Parses(body) == body.variant # "garbage"

\* The record pendingRequests holds under the order.request_id of `message`,
\* if any.
Addressed(message) ==
    IF /\ Parses(message)
       /\ message.variant = "order"
       /\ message.request_id \in DOMAIN pendingRequests
    THEN {pendingRequests[message.request_id]}
    ELSE {}

\* The name of the event of waitForAction, `${action}-${orderId}`
\* (mostro.ts:143).
EventName(action, orderId) == <<action, orderId>>

\* ------------------------------------------------------------ waitForAction

\* The (action, order id) pairs waited for, and the delays given as timeoutMs
\* (the default, REQUEST_TIMEOUT, and a shorter one).
WaitKeys == { <<"release", "o1">>, <<"release", "o2">>, <<"fiat-sent", "o1">> }

WaitTimeouts == {Quantum, REQUEST_TIMEOUT}

\* The inbound kind-4 events met by waiters: an order message of Mostro for
\* each pair waited for, and the events of InboundEvents that carry no order
\* message (cant-do, no JSON, not decryptable).
WaitEvents ==
    { [pubkey |-> "mostroPub", decrypts |-> TRUE,
       body |-> [variant |-> "order", request_id |-> NoId,
                 action |-> k[1], id |-> k[2]]] : k \in WaitKeys }
    \cup { e \in InboundEvents : e.body.variant # "order" \/ ~e.decrypts }

\* The record of a waitForAction call (mostro.ts:370-390): its promise, its
\* timer and whether its handler is still registered (this.on / this.off).
\* `fired` counts the calls of its resolve and reject functions.
NewWaiter(action, orderId, timeoutMs) ==
    [ action |-> action,
      orderId |-> orderId,
      timer |-> timeoutMs,
      completion |-> "pending",
      message |-> {},
      fired |-> 0,
      listening |-> TRUE ]

\* waitForAction(action, orderId, timeoutMs) (mostro.ts:370-390).
WaitForAction(action, orderId, timeoutMs) ==
    /\ inst = "alive"
    /\ Len(waiters) < MaxWaiters
    /\ waiters' = Append(waiters, NewWaiter(action, orderId, timeoutMs))
    /\ Quiet
    /\ UNCHANGED <<pureVars, searchVars, instVars, connVars, gwVars, subVars, reqs,
                   pendingRequests, nextRequestId>>

\* A handler that stays registered after the timeout (this.off forgotten).
StaysRegistered == TRUE

\* this.off(eventName, handler) (mostro.ts:379, 386).
AfterOff == FALSE

\* The timer callback of waitForAction (mostro.ts:385-388).
WaiterTimeout(i) ==
    /\ i \in DOMAIN waiters
    /\ waiters[i].timer = 0
    /\ waiters' = [waiters EXCEPT ![i] =
                    [@ EXCEPT !.listening = AfterOff,
                              !.fired = @ + 1,
                              !.completion =
                                  IF @ = "pending" THEN "rejected" ELSE @,
                              !.timer = TimerAfterFiring]]
    /\ Quiet
    /\ UNCHANGED <<pureVars, searchVars, instVars, connVars, gwVars, subVars, reqs,
                   pendingRequests, nextRequestId>>

\* An emit that calls only the handler registered first under the name.
FirstListener(name) ==
    {i \in DOMAIN waiters :
        /\ waiters[i].listening
        /\ EventName(waiters[i].action, waiters[i].orderId) = name
        /\ \A j \in 1 .. (i - 1) :
              ~(/\ waiters[j].listening
                /\ EventName(waiters[j].action, waiters[j].orderId) = name)}

\* The handlers this.emit(name, ...) calls: those registered under the name
\* when emit is called, each once.
Listeners(name) ==
    {i \in DOMAIN waiters :
        /\ waiters[i].listening
        /\ EventName(waiters[i].action, waiters[i].orderId) = name}

\* The test of the handler of waitForAction (mostro.ts:376).
HandlerMatches(w, message) ==
    /\ message.variant = "order"
    /\ message.action = w.action
    /\ message.id = w.orderId

\* The handler of waitForAction called with `message` (mostro.ts:374-381):
\* clearTimeout, this.off, resolve.
Handled(w, message) ==
    IF HandlerMatches(w, message)
    THEN [w EXCEPT !.timer = NoTimer,
                   !.listening = AfterOff,
                   !.fired = @ + 1,
                   !.completion = IF @ = "pending" THEN "resolved" ELSE @,
                   !.message = IF w.completion = "pending" THEN {message} ELSE @]
    ELSE w

\* this.emit(`${action}-${orderId}`, mostroMessage, sender) (mostro.ts:145).
Emit(message) ==
    [i \in DOMAIN waiters |->
        IF i \in Listeners(EventName(message.action, message.id))
        THEN Handled(waiters[i], message)
        ELSE waiters[i]]

\* handlePrivateMessage (mostro.ts:133-153) for the text `message`: it emits
\* '<action>-<orderId>' for an order message, then 'dm'.  It reads neither
\* request_id nor pendingRequests: a record addressed by the message only
\* counts the reply.
HandlePrivateMessage(message) ==
    /\ emitted' =
         IF ~Parses(message) THEN <<>>
         ELSE IF message.variant = "order"
              THEN <<EventName(message.action, message.id), <<"dm">> >>
              ELSE << <<"dm">> >>
    /\ reqs' = [i \in DOMAIN reqs |->
                 IF i \in Addressed(message) /\ reqs[i].replies < MaxReplies
                 THEN [reqs[i] EXCEPT !.replies = @ + 1]
                 ELSE reqs[i]]
    /\ waiters' = IF Parses(message) /\ message.variant = "order"
                  THEN Emit(message)
                  ELSE waiters
    /\ UNCHANGED <<pendingRequests, nextRequestId>>

\* What the listener of subscribeDirectMessages and handlePrivateMessage
\* write to console.error for `event` on subscription s: the decryption
\* error (part_000:308-310; decryptContent throws without a private key,
\* part_000:339-341) or the JSON.parse error (mostro.ts:150-152).
Logged(s, event) ==
    IF event.pubkey = ndkSubs[s].filters THEN NoValue
    ELSE IF privateKey = NoValue \/ ~event.decrypts
         THEN "Failed to decrypt DM"
         ELSE IF ~Parses(event.body)
              THEN "Error handling private message"
              ELSE NoValue

\* The relay delivers a kind-4 event on the live subscription s of
\* subscribeDirectMessages (part_000:303-312): events of the user's own key
\* (as it was at subscription time) are skipped, a content that does not
\* decrypt under the current private key is logged and dropped, anything else
\* is emitted as 'dm' to handlePrivateMessage.
InboundDM(s, event) ==
    /\ inst = "alive"
    /\ s \in DOMAIN ndkSubs
    /\ ndkSubs[s].kind = "dms"
    /\ ~ndkSubs[s].stopped
    /\ IF /\ event.pubkey # ndkSubs[s].filters
          /\ privateKey # NoValue
          /\ event.decrypts
       THEN HandlePrivateMessage(event.body)
       ELSE /\ emitted' = <<>>
            /\ UNCHANGED reqVars
    /\ logged' = Logged(s, event)
    /\ delivered' = {}
    /\ published' = {}
    /\ thrown' = NoValue
    /\ UNCHANGED <<pureVars, searchVars, instVars, connVars, gwVars, subVars>>

\* ------------------------------------------------------- order events, search

\* A field no value was given for.
Undefined == "<undefined>"

LowerCase(c) ==
    CASE c = "B" -> "b"
      [] c = "C" -> "c"
      [] c = "T" -> "t"
      [] OTHER -> c

\* String.prototype.toLowerCase on a string given as its characters.
ToLowerCase(str) == [i \in DOMAIN str |-> LowerCase(str[i])]

RECURSIVE TrimStart(_)
TrimStart(str) ==
    IF str # <<>> /\ Head(str) = " " THEN TrimStart(Tail(str)) ELSE str

RECURSIVE TrimEnd(_)
TrimEnd(str) ==
    IF str # <<>> /\ str[Len(str)] = " "
    THEN TrimEnd(SubSeq(str, 1, Len(str) - 1))
    ELSE str

\* String.prototype.trim.
Trim(str) == TrimEnd(TrimStart(str))

\* String.prototype.split(','): the pieces between the commas, in order.
RECURSIVE Split(_)
Split(str) ==
    IF \E i \in DOMAIN str : str[i] = ","
    THEN LET i == CHOOSE k \in DOMAIN str :
                    /\ str[k] = ","
                    /\ \A j \in 1 .. (k - 1) : str[j] # ","
         IN  <<SubSeq(str, 1, i - 1)>> \o Split(SubSeq(str, i + 1, Len(str)))
    ELSE <<str>>

\* The tags of `tags` that enter tagMap under `key` (part_000:222-227): those
\* of two elements or more.
TagsOf(tags, key) ==
    {i \in DOMAIN tags : Len(tags[i]) >= 2 /\ tags[i][1] = key}

HasTag(tags, key) == TagsOf(tags, key) # {}

\* tagMap.get(key): Map.set keeps the value set last.
TagValue(tags, key) ==
    tags[CHOOSE i \in TagsOf(tags, key) : \A j \in TagsOf(tags, key) : j <= i][2]

\* An exact-match check that lets every tag value pass.
FieldAlwaysPasses(tags, key, wanted) == TRUE

\* One exact-match check of isOrderEvent (part_000:230-235 and the like):
\* passed when the filter field is undefined or equals the tag's value.
FieldPasses(tags, key, wanted) ==
    wanted = Undefined \/ (HasTag(tags, key) /\ TagValue(tags, key) = wanted)

\* The payment-methods check of isOrderEvent (part_000:270-280).
PaymentMethodsPass(tags, paymentMethods) ==
    Len(paymentMethods) > 0 =>
        /\ HasTag(tags, "pm")
        /\ TagValue(tags, "pm") # <<>>
        /\ LET orderPms == [i \in DOMAIN Split(TagValue(tags, "pm")) |->
                               ToLowerCase(Trim(Split(TagValue(tags, "pm"))[i]))]
               filterPms == [i \in DOMAIN paymentMethods |->
                               ToLowerCase(paymentMethods[i])]
           IN  \E i \in DOMAIN filterPms, j \in DOMAIN orderPms :
                   filterPms[i] = orderPms[j]

\* Nostr.isOrderEvent (part_000:221-283).
isOrderEvent(event, filters) ==
    /\ FieldPasses(event.tags, "z", filters.documentType)
    /\ FieldPasses(event.tags, "k", filters.orderType)
    /\ FieldPasses(event.tags, "f", filters.currency)
    /\ FieldPasses(event.tags, "s", filters.status)
    /\ FieldPasses(event.tags, "y", filters.platform)
    /\ PaymentMethodsPass(event.tags, filters.paymentMethods)

\* extractOrderFromEvent (../core/order, not among the sources): the Order
\* read from the canonical tags, or nothing when the id tag 'd' is missing.
\* Given as a set of at most one Order.
extractOrderFromEvent(event) ==
    IF HasTag(event.tags, "d")
    THEN {[id |-> TagValue(event.tags, "d")]}
    ELSE {}

\* handlePublicMessage (mostro.ts:110-131): what it emits for `event`.  Only
\* an event of kind 4 is looked at; extractMostroInfoFromEvent
\* (mostro.ts:416-437) yields an info for any tag list.
handlePublicMessage(event) ==
    IF event.kind = 4
    THEN IF extractOrderFromEvent(event) # {}
         THEN << <<"order-update",
                   (CHOOSE o \in extractOrderFromEvent(event) : TRUE).id>> >>
         ELSE << <<"mostro-info">> >>
    ELSE <<>>

\* The filters searchOrders builds from its options (mostro.ts:277-285):
\* `x || undefined` for the strings, and documentType always 'order'.
OrUndefined(x) == IF x = "" THEN Undefined ELSE x

SearchFilters(opts) ==
    [ authors |-> opts.authors,
      orderType |-> OrUndefined(opts.orderType),
      currency |-> OrUndefined(opts.currency),
      status |-> OrUndefined(opts.status),
      documentType |-> "order",
      platform |-> OrUndefined(opts.platform),
      paymentMethods |-> opts.paymentMethods ]

\* The subscription id of subscribeOrdersWithFilters (part_000:216).
FilteredSubId(filters) == <<"filtered-orders", filters>>

\* searchOrders(opts) (mostro.ts:273-310) up to the return of its promise.
\* Date.now() is the millisecond of the last call (sameMs) or a later one.
\* subscribeOrdersWithFilters throws when the gateway is not initialized
\* (part_000:193-195) and the promise is rejected.
SearchOrders(opts, sameMs) ==
    /\ inst = "alive"
    /\ Len(searches) < MaxSearches
    /\ LET searchId == IF sameMs THEN stamp ELSE stamp + 1
           filters == SearchFilters(opts)
           sub == Len(ndkSubs) + 1
       IN  /\ stamp' = searchId
           /\ IF ~initialized
              THEN /\ searches' = Append(searches,
                        [id |-> searchId, sub |-> 0, filters |-> filters,
                         orders |-> <<>>, timer |-> NoTimer,
                         state |-> "rejected"])
                   /\ UNCHANGED <<subVars, customOrderSubscriptions>>
              ELSE /\ Len(ndkSubs) < MaxSubs
                   /\ ndkSubs' = Append(ndkSubs, NewSub("filtered", filters))
                   /\ subscriptions' =
                        MapSet(subscriptions, FilteredSubId(filters), sub)
                   /\ customOrderSubscriptions' =
                        MapSet(customOrderSubscriptions, searchId, sub)
                   /\ searches' = Append(searches,
                        [id |-> searchId, sub |-> sub, filters |-> filters,
                         orders |-> <<>>, timer |-> SEARCH_WINDOW,
                         state |-> "pending"])
    /\ Quiet
    /\ UNCHANGED <<pureVars, instVars, connVars, gwVars, reqVars>>

\* closeOrderSearch (mostro.ts:312-318): the subscriptions afterwards.
CloseOrderSearch(subs, searchId) ==
    IF searchId \in DOMAIN customOrderSubscriptions
    THEN [subs EXCEPT ![customOrderSubscriptions[searchId]].stopped = TRUE]
    ELSE subs

\* The timer callback of searchOrders (mostro.ts:295-298).
SearchTimeout(i) ==
    /\ i \in DOMAIN searches
    /\ searches[i].timer = 0
    /\ ndkSubs' = CloseOrderSearch(ndkSubs, searches[i].id)
    /\ customOrderSubscriptions' =
         MapDelete(customOrderSubscriptions, searches[i].id)
    /\ searches' = [searches EXCEPT ![i].timer = NoTimer,
                                    ![i].state = "resolved"]
    /\ Quiet
    /\ UNCHANGED <<pureVars, instVars, connVars, gwVars, subscriptions, reqVars, stamp>>

\* The relay filter of a subscription (part_000:175-179, 197-204): kind 38383
\* and, where authors are given, one of them as the event's pubkey.
RelayFilterPasses(sub, event) ==
    /\ event.kind = NOSTR_REPLACEABLE_EVENT_KIND
    /\ IF sub.kind = "orders"
       THEN event.pubkey = sub.filters
       ELSE Len(sub.filters.authors) > 0 =>
                \E a \in DOMAIN sub.filters.authors :
                    sub.filters.authors[a] = event.pubkey

\* The 'event' listener of searchOrders (mostro.ts:301-306) on the
\* subscription object s: every search made on it pushes the order.
Collect(s, event) ==
    [i \in DOMAIN searches |->
        IF searches[i].sub = s /\ extractOrderFromEvent(event) # {}
        THEN [searches[i] EXCEPT !.orders =
                Append(@, [order |-> CHOOSE o \in extractOrderFromEvent(event) : TRUE,
                           event |-> event])]
        ELSE searches[i]]

\* The relay delivers `event` on the live subscription s of subscribeOrders
\* or subscribeOrdersWithFilters.  The gateway's listener (part_000:183-185,
\* 208-214) emits 'public-message', for a filtered subscription only when
\* isOrderEvent holds; then the listener of searchOrders runs.
PublicEvent(s, event) ==
    /\ inst = "alive"
    /\ s \in DOMAIN ndkSubs
    /\ ndkSubs[s].kind \in {"orders", "filtered"}
    /\ ~ndkSubs[s].stopped
    /\ RelayFilterPasses(ndkSubs[s], event)
    /\ \A i \in DOMAIN searches :
          searches[i].sub = s => Len(searches[i].orders) < MaxOrders
    /\ delivered' = {[sub |-> s, event |-> event]}
    /\ logged' = NoValue
    /\ emitted' =
         IF ndkSubs[s].kind = "orders" \/ isOrderEvent(event, ndkSubs[s].filters)
         THEN handlePublicMessage(event)
         ELSE <<>>
    /\ searches' = Collect(s, event)
    /\ published' = {}
    /\ thrown' = NoValue
    /\ UNCHANGED <<pureVars, instVars, connVars, gwVars, subVars, reqVars,
                   customOrderSubscriptions, stamp>>

\* The options of the searches: none, and sell orders in USD.
NoOptions ==
    [ authors |-> <<>>, orderType |-> "", currency |-> "", status |-> "",
      platform |-> "", paymentMethods |-> <<>> ]

SearchOptions ==
    { NoOptions,
      [NoOptions EXCEPT !.orderType = "sell", !.currency = "USD"],
      [NoOptions EXCEPT !.paymentMethods = << <<"B", " ", "T">> >>] }

\* Kind-38383 events of a Mostro: a pending sell order in USD, the same order
\* republished as active, a buy order in USD, and the Mostro's info document
\* (no 'd' tag).
OrderEvents ==
    { [kind |-> NOSTR_REPLACEABLE_EVENT_KIND, pubkey |-> "mostroPub",
       tags |-> << <<"z", "order">>, <<"k", "sell">>, <<"f", "USD">>,
                   <<"d", "o1">>, <<"s", "pending">>,
                   <<"pm", <<"c", ",", " ", "b", " ", "t">> >> >>],
      [kind |-> NOSTR_REPLACEABLE_EVENT_KIND, pubkey |-> "mostroPub",
       tags |-> << <<"z", "order">>, <<"k", "sell">>, <<"f", "USD">>,
                   <<"d", "o1">>, <<"s", "active">> >>],
      [kind |-> NOSTR_REPLACEABLE_EVENT_KIND, pubkey |-> "mostroPub",
       tags |-> << <<"z", "order">>, <<"k", "buy">>, <<"f", "USD">>,
                   <<"d", "o2">> >>],
      [kind |-> NOSTR_REPLACEABLE_EVENT_KIND, pubkey |-> "mostroPub",
       tags |-> << <<"z", "info">>, <<"mostro_version", "0.12">> >>] }

\* A direct call of isOrderEvent(event, filters) (part_000:221-283): its
\* arguments and its result.
IsOrderEvent(event, filters) ==
    /\ call' = [fn |-> "isOrderEvent", event |-> event, filters |-> filters,
                result |-> isOrderEvent(event, filters)]
    /\ UNCHANGED <<instVars, connVars, gwVars, subVars, reqVars, searchVars,
                   outVars, rating>>

\* Tag lists met by isOrderEvent: a full order; an order with few tags; one
\* with the tag 'k' twice; one with an empty 'pm' value; one whose 'k' tag has
\* no value; one whose 'pm' value ends in a comma; and no tags at all.
FilterEvents ==
    { [tags |-> t] : t \in
        { << <<"z", "order">>, <<"k", "sell">>, <<"f", "USD">>,
             <<"s", "pending">>, <<"y", "mostrop2p">>,
             <<"pm", <<"c", ",", " ", "b", " ", "t">> >> >>,
          << <<"z", "order">>, <<"k", "buy">>, <<"f", "USD">> >>,
          << <<"z", "order">>, <<"k", "buy">>, <<"k", "sell">> >>,
          << <<"z", "order">>, <<"k", "sell">>, <<"pm", <<>> >> >>,
          << <<"z", "order">>, <<"k">> >>,
          << <<"z", "order">>, <<"pm", <<"C", ",">> >> >>,
          <<>> } }

\* OrderFilters (part_000:98-113) given to isOrderEvent: each string field
\* undefined, empty or a value; paymentMethods undefined or empty (<<>>), or
\* a list of methods, among them the empty string.
Filters ==
    [ documentType : {Undefined, "", "order"},
      orderType : {Undefined, "", "sell"},
      currency : {Undefined, "USD"},
      status : {Undefined, "pending"},
      platform : {Undefined, "mostrop2p"},
      paymentMethods : { <<>>, << <<"B", " ", "T">> >>, << <<>> >>,
                         << <<"x">>, <<"C">> >> } ]

\* ------------------------------------------------------------------ ratings

\* RatingUtils.isValidRating (part_000:52-54).
isValidRating(r, value) == value >= r.min_rate /\ value <= r.max_rate

\* RatingUtils.isValidRatingObject (part_000:60-68).
isValidRatingObject(r) ==
    /\ r.total_reviews >= 0
    /\ r.total_rating >= 0
    /\ r.last_rating >= r.min_rate
    /\ r.last_rating <= r.max_rate
    /\ r.min_rate <= r.max_rate

\* RatingUtils.addNewRating(rating, newRatingValue) (part_000:75-86), the
\* caller keeping the Rating it returns: an invalid value throws and leaves
\* the caller with the Rating it had.
AddNewRating(newRatingValue) ==
    /\ rating.total_reviews < MaxReviews
    /\ IF ~isValidRating(rating, newRatingValue)
       THEN /\ thrown' = "Invalid rating value"
            /\ rating' = rating
       ELSE /\ thrown' = NoValue
            /\ rating' = [rating EXCEPT
                            !.total_reviews = @ + 1,
                            !.total_rating = @ + newRatingValue,
                            !.last_rating = newRatingValue]
    /\ UNCHANGED <<instVars, connVars, gwVars, subVars, reqVars, searchVars,
                   delivered, published, emitted, logged, call>>

\* The rates of the model: whole numbers around zero.
Rates == -1 .. 2

\* The values given to addNewRating: every rate, and one below and one above.
RatingValues == -2 .. 3

\* The Rating objects a sequence of calls starts from: those that satisfy
\* isValidRatingObject, with no or one review so far.
StartRatings ==
    { r \in [total_reviews : 0 .. 1, total_rating : 0 .. 2, last_rating : Rates,
             max_rate : Rates, min_rate : Rates] : isValidRatingObject(r) }

\* ------------------------------------------------------------ specifications

\* Nothing has happened yet on an instance: the zero of every variable that
\* new Mostro(options) does not set.
Untouched ==
    /\ ndkSubs = <<>>
    /\ subscriptions = EmptyMap
    /\ reqs = <<>>
    /\ pendingRequests = EmptyMap
    /\ nextRequestId = 0
    /\ waiters = <<>>
    /\ searches = <<>>
    /\ customOrderSubscriptions = EmptyMap
    /\ stamp = 0
    /\ delivered = {}
    /\ published = {}
    /\ emitted = <<>>
    /\ thrown = NoValue
    /\ logged = NoValue

\* No call of isOrderEvent has been made and the caller holds no Rating.
NoCall == [fn |-> "none"]

NoPureCalls ==
    /\ rating = NoValue
    /\ call = NoCall

\* Before new Mostro(options), for any options.
LifeInit ==
    /\ inst = "none"
    /\ options \in [privateKey : KeyStrings, mostroPubKey : MostroPubKeys]
    /\ keyManager = FALSE
    /\ mostroPubKey = ""
    /\ connects = <<>>
    /\ initialized = FALSE
    /\ privateKey = NoValue
    /\ poolListener = FALSE
    /\ Untouched
    /\ NoPureCalls

\* Construction, connection and the pool's signals.
LifeNext ==
    \/ Construct
    \/ Connect
    \/ \E i \in 1 .. (1 + MaxConnects) : NdkConnected(i)
    \/ PoolConnect
    \/ \E k \in KeyStrings : UpdatePrivKey(k)
    \/ SubscribeDirectMessages
    \/ Disconnect

SpecLife == LifeInit /\ [][LifeNext]_vars

\* Right after new Mostro(options) has returned: the options held no private
\* key (the constructor throws otherwise), the gateway is not initialized and
\* the constructor's connect() awaits ndk.connect() (the state Construct
\* leaves).
Constructed ==
    /\ inst = "alive"
    /\ options \in [privateKey : {EmptyKeyString}, mostroPubKey : MostroPubKeys]
    /\ keyManager = FALSE
    /\ mostroPubKey = options.mostroPubKey
    /\ connects = <<"awaitNdk">>
    /\ initialized = FALSE
    /\ privateKey = NoValue
    /\ poolListener = TRUE
    /\ Untouched

Init == Constructed /\ NoPureCalls

\* The trade actions and the direct messages of a constructed instance.
Next ==
    \/ \E i \in 1 .. (1 + MaxConnects) : NdkConnected(i)
    \/ \E k \in SomeKeyStrings : UpdatePrivKey(k)
    \/ SubscribeDirectMessages
    \/ Disconnect
    \/ \E a \in TradeActions : TradeCall(a, PlainArgs)
    \/ \E i \in 1 .. MaxCalls, ok \in BOOLEAN : PublishDone(i, ok)
    \/ \E i \in 1 .. MaxCalls : Timeout(i)
    \/ Tick
    \/ \E s \in 1 .. MaxSubs, event \in InboundEvents : InboundDM(s, event)

Spec == Init /\ [][Next]_vars

\* The waiters of waitForAction and the direct messages of a constructed
\* instance.
WaitNext ==
    \/ \E i \in 1 .. (1 + MaxConnects) : NdkConnected(i)
    \/ \E k \in SomeKeyStrings : UpdatePrivKey(k)
    \/ SubscribeDirectMessages
    \/ Disconnect
    \/ \E k \in WaitKeys, timeoutMs \in WaitTimeouts :
          WaitForAction(k[1], k[2], timeoutMs)
    \/ \E i \in 1 .. MaxWaiters : WaiterTimeout(i)
    \/ Tick
    \/ \E s \in 1 .. MaxSubs, event \in WaitEvents : InboundDM(s, event)

SpecWait == Init /\ [][WaitNext]_vars

\* Replies to release({id: "o1"}) as Mostro sends them: order messages of
\* action release for order o1, with the id of a request or with none.
LateEvents ==
    { [pubkey |-> "mostroPub", decrypts |-> TRUE,
       body |-> [variant |-> "order", request_id |-> r,
                 action |-> "release", id |-> "o1"]] :
        r \in RequestIds \cup {NoId} }

\* Requests, waiters and replies together: release calls, waiters for the
\* release of o1, their timeouts, and replies arriving before, between and
\* after them.
LateNext ==
    \/ \E i \in 1 .. (1 + MaxConnects) : NdkConnected(i)
    \/ \E k \in SomeKeyStrings : UpdatePrivKey(k)
    \/ SubscribeDirectMessages
    \/ WaitForAction("release", "o1", REQUEST_TIMEOUT)
    \/ \E i \in 1 .. MaxWaiters : WaiterTimeout(i)
    \/ TradeCall("release", PlainArgs)
    \/ \E i \in 1 .. MaxCalls : PublishDone(i, TRUE)
    \/ \E i \in 1 .. MaxCalls : Timeout(i)
    \/ Tick
    \/ \E s \in 1 .. MaxSubs, event \in LateEvents : InboundDM(s, event)

SpecLate == Init /\ [][LateNext]_vars

\* Key updates among outstanding requests and waiters: every key string,
\* among them two that decode to different keys.
KeysNext ==
    \/ \E i \in 1 .. (1 + MaxConnects) : NdkConnected(i)
    \/ \E k \in KeyStrings : UpdatePrivKey(k)
    \/ \E a \in TradeActions : TradeCall(a, PlainArgs)
    \/ \E i \in 1 .. MaxCalls, ok \in BOOLEAN : PublishDone(i, ok)
    \/ \E i \in 1 .. MaxCalls : Timeout(i)
    \/ WaitForAction("release", "o1", REQUEST_TIMEOUT)
    \/ \E i \in 1 .. MaxWaiters : WaiterTimeout(i)
    \/ Tick

SpecKeys == Init /\ [][KeysNext]_vars

\* The trade actions with every argument and every draw of TradeArgs, up to
\* the timeout of their requests.
TradeNext ==
    \/ \E i \in 1 .. (1 + MaxConnects) : NdkConnected(i)
    \/ \E k \in SomeKeyStrings : UpdatePrivKey(k)
    \/ \E a \in TradeActions, args \in TradeArgs : TradeCall(a, args)
    \/ \E i \in 1 .. MaxCalls, ok \in BOOLEAN : PublishDone(i, ok)
    \/ \E i \in 1 .. MaxCalls : Timeout(i)
    \/ Tick

SpecTrade == Init /\ [][TradeNext]_vars

\* A caller of RatingUtils holding a valid Rating, beside a constructed
\* instance.
RatingInit ==
    /\ Constructed
    /\ rating \in StartRatings
    /\ call = NoCall

RatingNext == \E value \in RatingValues : AddNewRating(value)

SpecRating == RatingInit /\ [][RatingNext]_vars

\* Calls of isOrderEvent on every tag list and filter of the sets above.
FilterNext == \E event \in FilterEvents, filters \in Filters :
                  IsOrderEvent(event, filters)

SpecFilter == Init /\ [][FilterNext]_vars

\* The order subscriptions and the searches of a constructed instance.
SearchNext ==
    \/ \E i \in 1 .. (1 + MaxConnects) : NdkConnected(i)
    \/ PoolConnect
    \/ \E opts \in SearchOptions, sameMs \in BOOLEAN : SearchOrders(opts, sameMs)
    \/ \E s \in 1 .. MaxSubs, event \in OrderEvents : PublicEvent(s, event)
    \/ Tick
    \/ \E i \in 1 .. MaxSearches : SearchTimeout(i)
    \/ Disconnect

SpecSearch == Init /\ [][SearchNext]_vars

\* ------------------------------------------------------------------ claims

\* The calls that went through createPendingRequest.
Allocated == {i \in DOMAIN reqs : reqs[i].id # NoId}

\* C1: a parsed inbound message whose order.request_id is the id of a record
\* pendingRequests holds resolves that record's completion and removes the
\* record.
C1_ReplyResolvesRequest ==
    \A i \in Allocated :
        reqs[i].replies > 0 =>
            /\ reqs[i].completion = "resolved"
            /\ reqs[i].id \notin DOMAIN pendingRequests

\* C2: every gift wrap a trade action publishes is tagged 'p' with the Mostro
\* public key configured at construction.
C2_WrappedToMostro ==
    \A e \in published : e.p = options.mostroPubKey

\* C3: the request ids are 0, 1, 2, ... in call order (they start at 0, grow
\* strictly and are never reused, whether or not the call failed later), and
\* pendingRequests holds under each id the one request that took it.
C3_RequestIdsUnique ==
    /\ \A i \in Allocated :
          reqs[i].id = Cardinality({j \in Allocated : j < i})
    /\ \A i, j \in Allocated : i < j => reqs[i].id < reqs[j].id
    /\ \A i \in Allocated : reqs[i].id < nextRequestId
    /\ \A r \in DOMAIN pendingRequests :
          /\ pendingRequests[r] \in Allocated
          /\ reqs[pendingRequests[r]].id = r
    /\ \A i \in Allocated :
          reqs[i].timer # NoTimer =>
              /\ reqs[i].id \in DOMAIN pendingRequests
              /\ pendingRequests[reqs[i].id] = i

\* C3, its case: two calls took ids 0 and 1, the first of them failed.
C3_Witness ==
    /\ Len(reqs) = 2
    /\ reqs[1].id = 0
    /\ reqs[1].caller = "failed"
    /\ reqs[2].id = 1
    /\ DOMAIN pendingRequests = {0, 1}

\* C4: the resolve and reject functions of a pending record are called at
\* most once in all, whatever replies, timer expiries and disconnects come;
\* the completion is settled exactly when one of them has been called.
C4_SettledAtMostOnce ==
    \A i \in DOMAIN reqs :
        /\ reqs[i].fired <= 1
        /\ (reqs[i].fired = 0 <=> reqs[i].completion = "pending")

\* C4, its case: a request that timed out, saw two replies to its id and a
\* disconnect.
C4_Witness ==
    \E i \in Allocated :
        /\ reqs[i].fired = 1
        /\ reqs[i].replies = 2
        /\ ~initialized
        /\ ~poolListener

\* C5: when the timer of a request has run out, its record is gone from
\* pendingRequests and its completion is rejected with the timeout error,
\* and so is the caller's promise where the trade action returned it; once
\* the timers of all requests have run out, pendingRequests is empty.
C5_TimeoutRemovesAndRejects ==
    /\ \A i \in Allocated :
          reqs[i].timer = NoTimer =>
              /\ reqs[i].id \notin DOMAIN pendingRequests
              /\ reqs[i].completion = "rejected"
              /\ reqs[i].value = "Request timed out"
    /\ ((\A i \in Allocated : reqs[i].timer = NoTimer)
          => pendingRequests = EmptyMap)

\* C5, its case: two published requests, no reply to either, both timed out.
C5_Witness ==
    /\ Len(reqs) = 2
    /\ \A i \in DOMAIN reqs :
          /\ reqs[i].id # NoId
          /\ reqs[i].caller = "returned"
          /\ reqs[i].replies = 0
          /\ reqs[i].timer = NoTimer

\* C6: disconnect() fails every outstanding completion: of the requests
\* whose trade action published, none is left in pendingRequests and none is
\* left pending.
C6_DisconnectFailsPending ==
    [][Disconnect =>
          \A i \in DOMAIN reqs' :
              reqs'[i].caller # "failed" =>
                  /\ reqs'[i].id \notin DOMAIN pendingRequests'
                  /\ reqs'[i].completion = "rejected"]_vars

\* C7: no promise of Mostro.connect() is ever rejected, and once the gateway
\* is initialized the constructor's promise is fulfilled.
C7_ConnectResolves ==
    /\ \A i \in DOMAIN connects : connects[i] # "rejected"
    /\ (initialized => connects[ReadyPromise] = "fulfilled")

\* C8: new Mostro(options) with a private key that decodes does not throw.
C8_ConstructsWithKey ==
    (inst # "none" /\ DecodePrivKey(options.privateKey) # NoValue)
        => inst = "alive"

\* C9: a kind-38383 event the subscription of subscribeOrders delivers, and
\* from which an Order can be extracted, makes the instance emit
\* 'order-update' with that order exactly once.
C9_OrderUpdateEmitted ==
    \A d \in delivered :
        (/\ ndkSubs[d.sub].kind = "orders"
         /\ d.event.kind = NOSTR_REPLACEABLE_EVENT_KIND
         /\ extractOrderFromEvent(d.event) # {})
            => \E o \in extractOrderFromEvent(d.event) :
                   emitted = << <<"order-update", o.id>> >>

\* C10: every order in the list of a search comes from an event that passes
\* isOrderEvent under the filters of that search, while the search collects
\* and in the list it resolves with.
C10_SearchResultMatchesFilters ==
    \A i \in DOMAIN searches :
        \A k \in DOMAIN searches[i].orders :
            isOrderEvent(searches[i].orders[k].event, searches[i].filters)

\* C11: the list of a search holds at most one order per order id: no two
\* different events of one order id are both in it.
C11_OneOrderPerId ==
    \A i \in DOMAIN searches :
        \A k, l \in DOMAIN searches[i].orders :
            (/\ k < l
             /\ searches[i].orders[k].order.id = searches[i].orders[l].order.id)
                => searches[i].orders[k].event = searches[i].orders[l].event

\* The errors of a trade action that finds no key: of submitOrder without a
\* key manager (mostro.ts:156-158) and of getMyPubKey (part_000:426-428).
KeyNotSetErrors == {"Key manager not initialized", "Private key not set"}

\* C12: a trade action called while no private key is loaded fails with a
\* key-not-set error and publishes no event.
C12_NoKeyNoTrade ==
    [][\A a \in TradeActions :
          (TradeCall(a, PlainArgs) /\ privateKey = NoValue) =>
              /\ published' = {}
              /\ reqs'[Len(reqs')].caller = "failed"
              /\ reqs'[Len(reqs')].callerError \in KeyNotSetErrors]_vars

\* C12, its case: with no private key loaded, submitOrder has failed for want
\* of a key manager and another trade action for want of the key.
C12_Witness ==
    /\ privateKey = NoValue
    /\ published = {}
    /\ \E i, j \in DOMAIN reqs :
          /\ reqs[i].callerError = "Key manager not initialized"
          /\ reqs[j].callerError = "Private key not set"
          /\ reqs[i].caller = "failed"
          /\ reqs[j].caller = "failed"

\* C13: a trade action that failed leaves no record of its request id in
\* pendingRequests, and the promise of that record, which the caller never
\* received, is never rejected.
C13_FailedCallLeavesNothing ==
    \A i \in Allocated :
        reqs[i].caller = "failed" =>
            /\ reqs[i].id \notin DOMAIN pendingRequests
            /\ reqs[i].completion # "rejected"

\* The step hands the content of `event`, received on subscription s, to
\* handlePrivateMessage, and the content parses.
Received(s, event) ==
    /\ InboundDM(s, event)
    /\ event.pubkey # ndkSubs[s].filters
    /\ privateKey # NoValue
    /\ event.decrypts
    /\ Parses(event.body)

DmEmitted == Cardinality({k \in DOMAIN emitted : emitted[k] = <<"dm">>})

\* C15: messages are not buffered.  A parsed message is emitted as 'dm'
\* exactly once.  A waiter or a request is completed only in the step that
\* receives a message for it while it is registered (the waiter's handler is
\* on, the request's record is in pendingRequests); a waiter that is settled
\* and a request that has timed out are left as they are by every later
\* message.
C15_NoBuffering ==
    [][/\ \A s \in 1 .. MaxSubs, event \in LateEvents :
             Received(s, event) => DmEmitted' = 1
       /\ \A i \in DOMAIN waiters' :
             (/\ waiters'[i].completion = "resolved"
              /\ (i \in DOMAIN waiters => waiters[i].completion # "resolved"))
                 => /\ i \in DOMAIN waiters
                    /\ waiters[i].listening
                    /\ \E s \in 1 .. MaxSubs, event \in LateEvents :
                          /\ Received(s, event)
                          /\ HandlerMatches(waiters[i], event.body)
       /\ \A i \in DOMAIN waiters :
             waiters[i].completion # "pending" => waiters'[i] = waiters[i]
       /\ \A i \in DOMAIN reqs' :
             (/\ reqs'[i].completion = "resolved"
              /\ (i \in DOMAIN reqs => reqs[i].completion # "resolved"))
                 => /\ i \in DOMAIN reqs
                    /\ reqs[i].id \in DOMAIN pendingRequests
                    /\ \E s \in 1 .. MaxSubs, event \in LateEvents :
                          /\ Received(s, event)
                          /\ event.body.request_id = reqs[i].id
       /\ \A i \in DOMAIN reqs :
             (reqs[i].id # NoId /\ reqs[i].timer = NoTimer)
                 => /\ reqs'[i].completion = reqs[i].completion
                    /\ reqs'[i].value = reqs[i].value
                    /\ reqs'[i].fired = reqs[i].fired]_vars

\* C15, its case: a reply of action release for o1 has just been emitted
\* (under its own name and as 'dm') after a waiter for it and a request had
\* timed out and before another waiter for it was registered; the first
\* waiter stays rejected.
C15_Witness ==
    /\ emitted = <<EventName("release", "o1"), <<"dm">> >>
    /\ Len(waiters) = 1
    /\ waiters[1].completion = "rejected"
    /\ waiters[1].fired = 1
    /\ \E i \in Allocated :
          /\ reqs[i].timer = NoTimer
          /\ reqs[i].completion = "rejected"
          /\ reqs[i].fired = 1

\* C16: a cant-do message whose request_id is the id of a record
\* pendingRequests holds resolves that record's completion.
C16_CantDoResolves ==
    [][\A s \in 1 .. MaxSubs, event \in InboundEvents :
          (/\ Received(s, event)
           /\ event.body.variant = "cant-do"
           /\ event.body.request_id \in DOMAIN pendingRequests)
              => reqs'[pendingRequests[event.body.request_id]].completion
                    = "resolved"]_vars

\* C17: an inbound direct message whose content does not decrypt or is no
\* JSON emits nothing and changes nothing: requests, waiters, subscriptions,
\* the gateway and the instance are as before, so what follows is handled as
\* if the message had not come.
C17_BadMessageDropped ==
    [][\A s \in 1 .. MaxSubs, event \in InboundEvents :
          (/\ InboundDM(s, event)
           /\ (~event.decrypts \/ event.body.variant = "garbage"))
              => /\ emitted' = <<>>
                 /\ thrown' = NoValue
                 /\ delivered' = {}
                 /\ published' = {}
                 /\ UNCHANGED <<reqVars, subVars, gwVars, instVars, connVars,
                                searchVars>>]_vars

\* C17, its case: a message that decrypts under the loaded key but is no
\* JSON has just been handled and logged while a request was outstanding.
C17_Witness ==
    /\ privateKey # NoValue
    /\ pendingRequests # EmptyMap
    /\ emitted = <<>>
    /\ logged = "Error handling private message"

\* C18: updatePrivKey with a key other than the loaded one leaves in
\* pendingRequests no record of a request whose trade action published, and
\* leaves no waiter registered.
C18_KeyReplacementInvalidates ==
    [][\A k \in KeyStrings :
          (/\ UpdatePrivKey(k)
           /\ privateKey # NoValue
           /\ DecodePrivKey(k) # NoValue
           /\ DecodePrivKey(k) # privateKey)
              => /\ \A i \in DOMAIN reqs' :
                       reqs'[i].caller # "failed" =>
                           reqs'[i].id \notin DOMAIN pendingRequests'
                 /\ \A i \in DOMAIN waiters' : ~waiters'[i].listening]_vars

\* C19: after disconnect() every subscription object the gateway created is
\* stopped, the subscriptions map is empty and the gateway is not
\* initialized.
C19_DisconnectStopsAll ==
    [][Disconnect =>
          /\ \A i \in DOMAIN ndkSubs' : ndkSubs'[i].stopped
          /\ subscriptions' = EmptyMap
          /\ ~initialized']_vars

\* The calls of ndk.connect() that are under way.
PoolConnectsUnderWay == {i \in DOMAIN connects : connects[i] = "awaitNdk"}

\* C20: from construction until disconnect() (the pool's listener is on), at
\* most one ndk.connect() is under way.
C20_OnePoolConnect ==
    poolListener => Cardinality(PoolConnectsUnderWay) <= 1

\* C21: whenever the pool's ready signal is handled with a Mostro public key
\* configured, subscribeOrders succeeds: nothing is thrown and a live
\* subscription to that author's order events is stored.
C21_ReadySubscribes ==
    [][(PoolConnect /\ Truthy(mostroPubKey)) =>
          /\ thrown' = NoValue
          /\ Len(ndkSubs') = Len(ndkSubs) + 1
          /\ ndkSubs'[Len(ndkSubs')] = NewSub("orders", mostroPubKey)
          /\ <<"orders", mostroPubKey>> \in DOMAIN subscriptions']_vars

\* A filter field that constrains: a string that is given and not empty.
NonEmpty(wanted) == wanted # Undefined /\ wanted # ""

\* The tag list holds a tag `key` whose value is `wanted`.
TagIs(tags, key, wanted) ==
    \E i \in DOMAIN tags :
        /\ Len(tags[i]) >= 2
        /\ tags[i][1] = key
        /\ tags[i][2] = wanted

\* The tag list holds a 'pm' tag one of whose comma-separated entries, trimmed,
\* equals one of the methods when letter case is ignored on both sides.
PmIs(tags, paymentMethods) ==
    \E i \in DOMAIN tags :
        /\ Len(tags[i]) >= 2
        /\ tags[i][1] = "pm"
        /\ \E j \in DOMAIN Split(tags[i][2]), m \in DOMAIN paymentMethods :
              ToLowerCase(Trim(Split(tags[i][2])[j]))
                  = ToLowerCase(paymentMethods[m])

\* C22: filter soundness.  When isOrderEvent returns true, every non-empty
\* field of the filter is satisfied by the corresponding tag of the event:
\* documentType by z, orderType by k, currency by f, status by s, platform by
\* y, and a non-empty paymentMethods by pm.
C22_FilterSound ==
    (call.fn = "isOrderEvent" /\ call.result) =>
        LET t == call.event.tags
            f == call.filters
        IN  /\ NonEmpty(f.documentType) => TagIs(t, "z", f.documentType)
            /\ NonEmpty(f.orderType) => TagIs(t, "k", f.orderType)
            /\ NonEmpty(f.currency) => TagIs(t, "f", f.currency)
            /\ NonEmpty(f.status) => TagIs(t, "s", f.status)
            /\ NonEmpty(f.platform) => TagIs(t, "y", f.platform)
            /\ Len(f.paymentMethods) > 0 => PmIs(t, f.paymentMethods)

\* C22, its case: isOrderEvent has returned true for a filter with all six
\* fields given.
C22_Witness ==
    /\ call.fn = "isOrderEvent"
    /\ call.result
    /\ NonEmpty(call.filters.documentType)
    /\ NonEmpty(call.filters.orderType)
    /\ NonEmpty(call.filters.currency)
    /\ NonEmpty(call.filters.status)
    /\ NonEmpty(call.filters.platform)
    /\ Len(call.filters.paymentMethods) > 0

\* C23: addInvoice without an amount publishes content.payment_request as the
\* two-element array [null, invoice]; with an amount, as the three-element
\* array [null, invoice, amount].
C23_PaymentRequestShape ==
    [][\A args \in TradeArgs :
          TradeCall("add-invoice", args) =>
              \A e \in published' :
                  e.rumor.payload.content.payment_request =
                      IF args.amount = {}
                      THEN <<Null, JsonString(args.invoice)>>
                      ELSE <<Null, JsonString(args.invoice),
                             Argument(args.amount)>>]_vars

\* The filter constrains the payment methods and nothing else.
OnlyPaymentMethods(filters) ==
    /\ filters.documentType = Undefined
    /\ filters.orderType = Undefined
    /\ filters.currency = Undefined
    /\ filters.status = Undefined
    /\ filters.platform = Undefined
    /\ Len(filters.paymentMethods) > 0

\* C24: a payment-methods filter matches an event exactly when one of its
\* methods equals, letter case ignored on both sides, one of the
\* comma-separated entries of the event's 'pm' tag.
C24_PaymentMethodsMatch ==
    (call.fn = "isOrderEvent" /\ OnlyPaymentMethods(call.filters)) =>
        (call.result <=> PmIs(call.event.tags, call.filters.paymentMethods))

\* A key string that is neither 64 hex characters nor a well-formed nsec.
Malformed(privKey) ==
    \/ privKey.form = "other"
    \/ (privKey.form = "nsec" /\ ~privKey.wellFormed)

\* C25: updatePrivKey with a string that is neither 64 hex characters nor a
\* well-formed nsec fails with an error that reaches the caller.
C25_BadKeyFails ==
    [][\A k \in KeyStrings :
          (UpdatePrivKey(k) /\ Malformed(k)) => thrown' # NoValue]_vars

\* The Unix time in seconds of a reading of Date.now().
NowSeconds(nowMs) == nowMs \div 1000

\* C26: every gift wrap produced has created_at within [now - 172800, now],
\* in seconds, for every draw, and so has its rumor; now is the second of the
\* clock reading the timestamp was drawn at.
C26_TimestampBound ==
    \A e \in published :
        /\ NowSeconds(e.drawnAt) - 172800 <= e.created_at
        /\ e.created_at <= NowSeconds(e.drawnAt)
        /\ NowSeconds(e.rumor.drawnAt) - 172800 <= e.rumor.created_at
        /\ e.rumor.created_at <= NowSeconds(e.rumor.drawnAt)

\* C26, its case: a wrap drawn at the far end of the two days, just after
\* the clock passed a second, around a rumor drawn at the near end.
C26_Witness ==
    \E e \in published :
        /\ e.kind = 1059
        /\ e.created_at = NowSeconds(e.drawnAt) - 172800
        /\ e.rumor.created_at = NowSeconds(e.rumor.drawnAt)
        /\ NowSeconds(e.drawnAt) = NowSeconds(e.rumor.drawnAt) + 1

\* The searches that started (their subscription was made).
Started == {i \in DOMAIN searches : searches[i].sub # 0}

\* C27: when the window of a search has ended, the subscription of that
\* search is stopped; once every search has returned, no subscription of a
\* search is live and customOrderSubscriptions is empty.
C27_SearchesCleanUp ==
    /\ \A i \in Started :
          searches[i].state = "resolved" => ndkSubs[searches[i].sub].stopped
    /\ (\A i \in Started : searches[i].state = "resolved") =>
          /\ customOrderSubscriptions = EmptyMap
          /\ \A s \in DOMAIN ndkSubs :
                ndkSubs[s].kind = "filtered" => ndkSubs[s].stopped

\* C28: the payload of takeSell and takeBuy carries the action, the id of the
\* order, and as content {amount} whenever an amount is given, 0 included,
\* and null exactly when it is omitted.
C28_TakeContent ==
    [][\A a \in {"take-sell", "take-buy"}, args \in TradeArgs :
          TradeCall(a, args) =>
              \A e \in published' :
                  /\ e.rumor.payload.action = a
                  /\ e.rumor.payload.id = args.order
                  /\ e.rumor.payload.content =
                        IF args.amount = {}
                        THEN Null
                        ELSE [amount |-> CHOOSE n \in args.amount : TRUE]]_vars

\* C29: filter completeness.  When every field given in the filter is
\* satisfied by the tags of the event, isOrderEvent returns true; a field that
\* is undefined, the empty string or the empty list rejects no event.
C29_FilterComplete ==
    (call.fn = "isOrderEvent") =>
        LET t == call.event.tags
            f == call.filters
        IN  (/\ NonEmpty(f.documentType) => TagIs(t, "z", f.documentType)
             /\ NonEmpty(f.orderType) => TagIs(t, "k", f.orderType)
             /\ NonEmpty(f.currency) => TagIs(t, "f", f.currency)
             /\ NonEmpty(f.status) => TagIs(t, "s", f.status)
             /\ NonEmpty(f.platform) => TagIs(t, "y", f.platform)
             /\ Len(f.paymentMethods) > 0 => PmIs(t, f.paymentMethods))
                => call.result

\* C30: starting from a Rating that satisfies isValidRatingObject, every
\* sequence of addNewRating calls keeps the invariants of a Rating:
\* total_reviews >= 0, total_rating >= 0, min_rate <= last_rating <= max_rate
\* and min_rate <= max_rate.
C30_RatingStaysValid ==
    /\ rating.total_reviews >= 0
    /\ rating.total_rating >= 0
    /\ rating.min_rate <= rating.last_rating
    /\ rating.last_rating <= rating.max_rate
    /\ rating.min_rate <= rating.max_rate

====
